---- MODULE Spec2Model ----
(***************************************************************************)
(* Procedural layout generation of the voxel world: the four layout        *)
(* generators (Basic, Walls, Cave, Tower), the greedy primitive extractor  *)
(* and the GridLayoutComponent wrapper of mazes/maze.h, driven by a caller *)
(* that issues the component's public calls in the order held in `plan'.   *)
(*                                                                         *)
(* A voxel coordinate is a triple <<x, y, z>> (length = x, height = y,     *)
(* width = z).  The grid is a function from the coordinates that were set  *)
(* to their solid flag; a coordinate outside its domain is absent.         *)
(***************************************************************************)
EXTENDS Integers, Sequences, FiniteSets, TLC

VARIABLES
    generator,       \* GridLayoutComponent::generator: the active generator object, NullGenerator when unset
    grid,            \* VoxelGrid<VoxelState>: coordinate -> solid flag
    numAgents,       \* the caller's agent count
    plan,            \* the calls the caller still has to issue
    rngWidth,        \* how many distinct outcomes a sampled random draw ranges over
    rngRank,         \* -1: sampled draws vary independently; r >= 0: each takes its r-th outcome
    initInvoked,     \* whether the last GridLayoutComponent::init reached generator->init()
    crashed,         \* the process died on a null generator
    fatal,           \* an assert() failed
    pc,              \* position inside a multi-step operation, "idle" between calls
    visited,         \* extractPrimitives: the visited set
    parallelepipeds, \* extractPrimitives: the boxes emitted so far
    order,           \* extractPrimitives: iteration order of the hash map
    cave,            \* Cave generate: the cave set
    q,               \* Cave generate: the flood-fill queue
    exitPad,         \* the box returned by levelExit
    zone,            \* the box returned by buildingZone
    agentPositions,  \* the vector returned by startingPositions
    slot,            \* Basic startingPositions: the agent index i
    attempt,         \* Basic startingPositions: the attempt counter
    returned,        \* the call that returned last
    seen             \* history: per top-level seed, the level of its first finished episode

vars == <<generator, grid, numAgents, plan, rngWidth, rngRank, initInvoked, crashed, fatal, pc,
          visited, parallelepipeds, order, cave, q, exitPad, zone,
          agentPositions, slot, attempt, returned, seen>>

----------------------------------------------------------------------------
(* Bounds of the exploration *)

\* largest agent count the caller passes
MaxAgents == 6
\* agent counts tried with the multi-step startingPositions loop
MaxStartAgents == 2
\* outcomes per sampled random draw of the starting positions
MaxDraws == 2
\* outcomes per sampled random draw of the room shell: every length init can draw
MaxShellDraws == 22
\* ranks of the outcome followed at each draw of the Walls and Tower init
MaxInitDraws == 1
\* ranks of the outcome followed at each draw in plans that build a grid
MaxGridDraws == 2
\* magnitude of the value an out-of-contract draw may yield
MaxUndefined == 3
\* cells the flood fill of the cave may claim before every further draw rejects
MaxCave == 3
\* iteration orders of the hash map tried by extractPrimitives
MaxOrders == 2
\* top-level seeds the caller passes to Env::seed
MaxSeeds == 2
\* episodes the caller runs on one Env
MaxEpisodes == 3
\* an agent count above the fewest spawn candidates the Walls init can have
MaxCrowd == 11

----------------------------------------------------------------------------
(* Utilities *)

Min2(a, b) == IF a < b THEN a ELSE b

Max2(a, b) == IF a > b THEN a ELSE b

\* the k smallest elements of a set of integers
Low(S, k) == {v \in S : Cardinality({u \in S : u < v}) < k}

\* what a draw outside the contract of the distribution may yield
Undefined == (0 - MaxUndefined) .. MaxUndefined

\* randRange(low, high, rng): an integer of [low, high); with an empty range
\* the distribution is used outside its contract and may yield any integer
RandRange(low, high) ==
    IF low < high THEN low .. (high - 1) ELSE Undefined

\* the element of a set of integers with r smaller elements
Nth(S, r) == CHOOSE v \in S : Cardinality({u \in S : u < v}) = r

\* the outcome of rank rngRank of a draw within its contract
Ranked(low, high) == {Nth(low .. (high - 1), rngRank % (high - low))}

\* the outcomes of a draw that the exploration follows: the rngWidth lowest, or the
\* one the rank selects
Sample(low, high) ==
    IF low >= high THEN RandRange(low, high)
    ELSE IF rngRank < 0 THEN Low(RandRange(low, high), rngWidth)
    ELSE Ranked(low, high)

\* the smallest and the largest outcome of a draw; when a single outcome per draw is
\* followed, the one of the two that the rank selects
Extremes(low, high) ==
    LET S == RandRange(low, high)
        both == rngRank < 0 \/ rngWidth > 1
    IN  IF low >= high THEN S
        ELSE {v \in S : \/ (both \/ rngRank % 2 = 0) /\ (\A u \in S : v <= u)
                        \/ (both \/ rngRank % 2 = 1) /\ (\A u \in S : u <= v)}

\* every draw is a function of the state of the generator: the rank
Replayed == rngRank >= 0 /\ rngWidth = 0

\* every outcome of a draw, or the one the rank selects when draws are replayed
Draws(low, high) ==
    IF low >= high \/ ~Replayed THEN RandRange(low, high) ELSE Ranked(low, high)

\* the sets of neighbours the draws of frand can accept: at most room of them, and
\* when draws vary independently also all of them, however many; the first
\* rngRank % 2 of them when draws are replayed
Accepts(candidates, room) ==
    IF Replayed
    THEN {{k \in candidates : Cardinality({j \in candidates : j < k}) < Min2(rngRank % 2, room)}}
    ELSE {A \in SUBSET candidates : Cardinality(A) <= room}
         \cup (IF rngRank < 0 THEN {candidates} ELSE {})

\* a box of voxels, corners inclusive
Box(min, max) ==
    {<<x, y, z>> : x \in min[1] .. max[1], y \in min[2] .. max[2], z \in min[3] .. max[3]}

BoundingBox(min, max) == [min |-> min, max |-> max]

\* grid.get(coords) returns a voxel and it is solid
Solid(g, c) == c \in DOMAIN g /\ g[c]

\* the coordinates whose voxel exists and is solid
SolidVoxels(gr) == {c \in DOMAIN gr : gr[c]}

\* grid.set(c, VoxelState(true)) for every c of S
SetSolid(g, S) == [c \in (DOMAIN g) \cup S |-> IF c \in S THEN TRUE ELSE g[c]]

\* grid.set(c, VoxelState(false)) for every c of S
SetFree(g, S) == [c \in (DOMAIN g) \cup S |-> IF c \in S THEN FALSE ELSE g[c]]

EmptyGrid == [c \in {} |-> TRUE]

NoBox == BoundingBox(<<0, 0, 0>>, <<0, 0, 0>>)

----------------------------------------------------------------------------
(* Generator objects *)

LayoutTypes == {"Empty", "Walls", "Cave", "Towers"}

\* a LayoutType value outside the enumeration handled by the switch
Unsupported == "Unsupported"

NullGenerator == [kind |-> "null"]

\* a freshly constructed generator: members with their default initialisers, and
\* numWalls, the wall count its last init drew
NewGenerator(kind, n) ==
    [kind |-> kind, numAgents |-> n, numWalls |-> 0,
     length |-> 0, height |-> 0, width |-> 0,
     maxWallHeight |-> 0, maxWallX |-> 0, firstWallX |-> 3, walls |-> <<>>,
     agentSpawnCoords |-> <<>>, objectSpawnCoords |-> <<>>,
     caveHeight |-> 0, freeVoxels |-> <<>>,
     buildZoneLength |-> 0, buildZoneWidth |-> 0, materialsLength |-> 0, materialsWidth |-> 0,
     buildZoneXOffset |-> 0, buildZoneZOffset |-> 0, materialsXOffset |-> 0, materialsZOffset |-> 0]

\* GridLayoutImpl::init: the generators it can leave
ImplInit(g) ==
    {[g EXCEPT !.length = l, !.width = w] : l \in Sample(8, 30), w \in Sample(7, 25)}

\* LayoutGeneratorBasic::init
BasicInit(g) ==
    {[b EXCEPT !.height = h] : b \in ImplInit(g), h \in Sample(3, 5)}

\* BasicGenerate with the far z wall one cell short of the edge of the floor
BasicGenerateShortWall(g, gr) ==
    LET floor == {<<x, 0, z>> : x \in 0 .. g.length - 1, z \in 0 .. g.width - 1}
        xWalls == {<<x, y, z>> : x \in {0, g.length - 1}, y \in 0 .. g.height - 1,
                                 z \in 0 .. g.width - 1}
        zWalls == {<<x, y, z>> : x \in 0 .. g.length - 1, y \in 0 .. g.height - 1,
                                 z \in {0, g.width - 2}}
    IN  SetSolid(gr, floor \cup xWalls \cup zWalls)

\* LayoutGeneratorBasic::generate: floor and perimeter walls
BasicGenerate(g, gr) ==
    LET floor == {<<x, 0, z>> : x \in 0 .. g.length - 1, z \in 0 .. g.width - 1}
        xWalls == {<<x, y, z>> : x \in {0, g.length - 1}, y \in 0 .. g.height - 1,
                                 z \in 0 .. g.width - 1}
        zWalls == {<<x, y, z>> : x \in 0 .. g.length - 1, y \in 0 .. g.height - 1,
                                 z \in {0, g.width - 1}}
    IN  SetSolid(gr, floor \cup xWalls \cup zWalls)

----------------------------------------------------------------------------
(* Sequences of coordinates *)

Reverse(s) == [i \in 1 .. Len(s) |-> s[Len(s) + 1 - i]]

Rotate(s, k) == [i \in 1 .. Len(s) |-> s[((i - 1 + k) % Len(s)) + 1]]

\* std::shuffle(first, last, rng): the permutations of s that the exploration follows
Shuffles(s) ==
    IF Len(s) = 0 THEN {s}
    ELSE IF rngRank < 0
    THEN UNION {{Rotate(s, k), Reverse(Rotate(s, k))} : k \in 0 .. Min2(rngWidth, Len(s)) - 1}
    ELSE {IF rngRank % 2 = 0 THEN Rotate(s, rngRank) ELSE Reverse(Rotate(s, rngRank))}

\* what a read past the end of a vector may yield
Indeterminate == {<<0, 0, 0>>, <<0 - 1, 0 - 1, 0 - 1>>}

\* std::vector(first + from, first + from + n): the elements copied; those read past
\* the end of s are indeterminate, and so is the vector built when last precedes first
Slices(s, from, n) ==
    IF n = 0 THEN {<<>>}
    ELSE IF n < 0 THEN {<<>>} \cup {<<c>> : c \in Indeterminate}
    ELSE IF from + n <= Len(s) THEN {SubSeq(s, from + 1, from + n)}
    ELSE {[i \in 1 .. n |-> IF from + i <= Len(s) /\ from + i >= 1 THEN s[from + i] ELSE c] :
            c \in Indeterminate}

\* the cells <<x, y, z>> with x in xs and z in zs, x outermost, as the nested loops emit them
RowMajor(xLo, xHi, y, zLo, zHi) ==
    IF xHi < xLo \/ zHi < zLo THEN <<>>
    ELSE [i \in 1 .. (xHi - xLo + 1) * (zHi - zLo + 1) |->
            <<xLo + ((i - 1) \div (zHi - zLo + 1)), y, zLo + ((i - 1) % (zHi - zLo + 1))>>]

Range(s) == {s[i] : i \in 1 .. Len(s)}

----------------------------------------------------------------------------
(* Walls generator *)

tallestWall == 4

maxNumWalls == 4

\* WallsFrom with the next wall drawn from prevWallX on instead of prevWallX + 1
RECURSIVE WallsFromPrev(_, _, _, _)
WallsFromPrev(prevWallX, i, numWalls, length) ==
    IF i >= numWalls THEN {<<>>}
    ELSE LET remainingSpace == 3 + (numWalls - i - 1) * 2
         IN  IF prevWallX + 1 >= length - remainingSpace THEN {<<>>}
             ELSE UNION {{<<<<wallX, wallHeight>>>> \o rest :
                            rest \in WallsFromPrev(wallX, i + 1, numWalls, length)} :
                         wallX \in Extremes(prevWallX, length - remainingSpace),
                         wallHeight \in Extremes(1, tallestWall + 1)}

\* LayoutGeneratorWalls::init, the loop over walls i .. numWalls-1: the lists of
\* <<wallX, wallHeight>> it appends, shorter than requested when the space runs out
RECURSIVE WallsFrom(_, _, _, _)
WallsFrom(prevWallX, i, numWalls, length) ==
    IF i >= numWalls THEN {<<>>}
    ELSE LET remainingSpace == 3 + (numWalls - i - 1) * 2
         IN  IF prevWallX + 1 >= length - remainingSpace THEN {<<>>}
             ELSE UNION {{<<<<wallX, wallHeight>>>> \o rest :
                            rest \in WallsFrom(wallX, i + 1, numWalls, length)} :
                         wallX \in Extremes(prevWallX + 1, length - remainingSpace),
                         wallHeight \in Extremes(1, tallestWall + 1)}

\* WallLists with the first wall drawn from the whole room, up to length - 3
WallListsAnywhere(numWalls, length, minLength) ==
    IF numWalls <= 0 THEN {<<>>}
    ELSE UNION {{<<<<firstWallX, firstWallHeight>>>> \o rest :
                   rest \in WallsFrom(firstWallX, 1, numWalls, length)} :
                firstWallX \in Extremes(4, length - 3),
                firstWallHeight \in Extremes(1, tallestWall + 1)}

\* the first wall and the walls after it
WallLists(numWalls, length, minLength) ==
    IF numWalls <= 0 THEN {<<>>}
    ELSE UNION {{<<<<firstWallX, firstWallHeight>>>> \o rest :
                   rest \in WallsFrom(firstWallX, 1, numWalls, length)} :
                firstWallX \in Extremes(4, 4 + 1 + length - minLength),
                firstWallHeight \in Extremes(1, tallestWall + 1)}

RECURSIVE MaxOver(_, _, _)
MaxOver(s, k, start) ==
    IF Len(s) = 0 THEN start ELSE MaxOver(Tail(s), k, Max2(start, Head(s)[k]))

RECURSIVE SumMaterial(_)
SumMaterial(walls) ==
    IF Len(walls) = 0 THEN 0 ELSE (Head(walls)[2] - 1) * 2 + SumMaterial(Tail(walls))

\* lines 304-334: the generator with the new walls appended and the height drawn
WallsPlaced(b, new, h) ==
    LET placed == IF Len(new) = 0 THEN b
                  ELSE [b EXCEPT !.firstWallX = new[1][1],
                                 !.maxWallX = MaxOver(new, 1, new[1][1]),
                                 !.maxWallHeight = MaxOver(new, 2, new[1][2]),
                                 !.walls = b.walls \o new]
    IN  [placed EXCEPT !.height = h + placed.maxWallHeight]

\* lines 336-356: the spawn lists cut from the shuffled candidates
WallsSpawns(w) ==
    LET candidates == RowMajor(1, w.firstWallX - 1, 1, 1, w.width - 2)
        minNumObjects == SumMaterial(w.walls)
    IN  UNION {{[w EXCEPT !.agentSpawnCoords = a, !.objectSpawnCoords = o] :
                  a \in Slices(sh, 0, w.numAgents),
                  o \in Slices(sh, w.numAgents, Min2(numObjects, Len(sh) - w.numAgents))} :
               sh \in Shuffles(candidates),
               numObjects \in Sample(minNumObjects, minNumObjects + 4)}

\* LayoutGeneratorWalls::init
WallsInit(g) ==
    UNION {UNION {UNION {WallsSpawns(WallsPlaced([b EXCEPT !.length = length,
                                                           !.numWalls = numWalls], new, h)) :
                           new \in WallLists(numWalls, length, numWalls * 2 + 4 + 3),
                           h \in Sample(3, 5)} :
                    length \in Extremes(numWalls * 2 + 4 + 3, 35)} :
           b \in BasicInit(g), numWalls \in Draws(0, maxNumWalls + 1)}

\* LayoutGeneratorWalls::generate
WallsGenerate(g, gr) ==
    SetSolid(BasicGenerate(g, gr),
             UNION {{<<g.walls[k][1], y, z>> : y \in 1 .. g.walls[k][2], z \in 1 .. g.width - 2} :
                    k \in 1 .. Len(g.walls)})

----------------------------------------------------------------------------
(* Cave generator *)

\* directions[] times sign -1, +1, in the order the loops visit them
Directions == <<<<0 - 1, 0, 0>>, <<1, 0, 0>>, <<0, 0 - 1, 0>>, <<0, 1, 0>>, <<0, 0, 0 - 1>>, <<0, 0, 1>>>>

Plus(c, d) == <<c[1] + d[1], c[2] + d[2], c[3] + d[3]>>

\* LayoutGeneratorCave::init
CaveInit(g) ==
    {[b EXCEPT !.caveHeight = ch, !.height = h + ch] :
       b \in BasicInit(g), ch \in Sample(2, 5), h \in Sample(3, 5)}

\* lines 435-444: the seed lists the loop can place
RECURSIVE CaveSeeds(_, _)
CaveSeeds(g, n) ==
    IF n <= 0 THEN {<<>>}
    ELSE UNION {{<<<<seedX, g.caveHeight, seedZ>>>> \o rest : rest \in CaveSeeds(g, n - 1)} :
                seedX \in Sample(2, g.length - 2), seedZ \in Sample(2, g.width - 2)}

NumSeeds(g) == Max2(1, (Max2(g.length, g.width) \div 7) + 1)

\* CaveCandidate without the test of the cave set
CaveCandidateAgain(g, cv, c) ==
    /\ ~(c[2] > g.caveHeight \/ c[2] < 1)
    /\ ~(c[1] >= g.length - 2 \/ c[1] < 2)
    /\ ~(c[3] > g.width - 1 \/ c[3] < 1)

\* lines 459-469: a neighbour the flood fill may add
CaveCandidate(g, cv, c) ==
    /\ c \notin cv
    /\ ~(c[2] > g.caveHeight \/ c[2] < 1)
    /\ ~(c[1] >= g.length - 2 \/ c[1] < 2)
    /\ ~(c[3] > g.width - 1 \/ c[3] < 1)

\* lines 479-486: the top surface
CaveTop(g, cv) ==
    {<<x, g.caveHeight, z>> : x \in 1 .. g.length - 1, z \in 1 .. g.width - 1} \ cv

\* lines 490-503: the walls of the cave
CaveWalls(g, cv) ==
    {a \in UNION {{Plus(c, Directions[k]) : k \in 1 .. 6} : c \in cv} :
        a[2] <= g.caveHeight /\ a \notin cv}

\* FirstAbove testing the voxel at y itself instead of the one below it
RECURSIVE FirstAboveSame(_, _, _, _)
FirstAboveSame(solid, x, y, z) ==
    IF y <= 0 THEN 0
    ELSE IF <<x, y, z>> \in solid THEN y
    ELSE FirstAboveSame(solid, x, y - 1, z)

\* getFreeVoxels, the loop over y from startY down: the first y whose voxel below
\* is solid, 0 when the loop ends without one
RECURSIVE FirstAbove(_, _, _, _)
FirstAbove(solid, x, y, z) ==
    IF y <= 0 THEN 0
    ELSE IF <<x, y - 1, z>> \in solid THEN y
    ELSE FirstAbove(solid, x, y - 1, z)

\* getFreeVoxels over the columns in the order of its loops
FreeAbove(solid, columns, startY) ==
    LET hit == SelectSeq(columns, LAMBDA c : FirstAbove(solid, c[1], startY, c[3]) > 0)
    IN  [i \in 1 .. Len(hit) |-> <<hit[i][1], FirstAbove(solid, hit[i][1], startY, hit[i][3]), hit[i][3]>>]

\* getFreeVoxels
FreeVoxels(gr, length, width, startY) ==
    FreeAbove(SolidVoxels(gr), RowMajor(1, length - 2, 0, 1, width - 2), startY)

\* lines 477-507 once the queue is empty: grid and generator after the fills
CaveFilled(g, gr, cv) == SetSolid(SetSolid(gr, CaveTop(g, cv)), CaveWalls(g, cv))

\* CaveExitScan visiting the entries from the first to the last
RECURSIVE CaveExitScanForward(_, _, _, _)
CaveExitScanForward(g, gr, i, exitPadWidth) ==
    IF i < 1 THEN BoundingBox(<<1, 1, 1>>, <<2, 2, 2>>)
    ELSE LET v == g.freeVoxels[Len(g.freeVoxels) + 1 - i]
             fits == \A z \in v[3] .. v[3] + exitPadWidth - 1 : ~Solid(gr, <<v[1], v[2], z>>)
         IN  IF fits THEN BoundingBox(v, <<v[1] + 1, v[2] + 1, v[3] + exitPadWidth>>)
             ELSE CaveExitScanForward(g, gr, i - 1, exitPadWidth)

\* LayoutGeneratorCave::levelExit: the box found scanning freeVoxels from the end
RECURSIVE CaveExitScan(_, _, _, _)
CaveExitScan(g, gr, i, exitPadWidth) ==
    IF i < 1 THEN BoundingBox(<<1, 1, 1>>, <<2, 2, 2>>)
    ELSE LET v == g.freeVoxels[i]
             fits == \A z \in v[3] .. v[3] + exitPadWidth - 1 : ~Solid(gr, <<v[1], v[2], z>>)
         IN  IF fits THEN BoundingBox(v, <<v[1] + 1, v[2] + 1, v[3] + exitPadWidth>>)
             ELSE CaveExitScan(g, gr, i - 1, exitPadWidth)

----------------------------------------------------------------------------
(* Tower generator *)

\* lines 565-577: sizes, enlarged to fit both footprints
TowerSizes(g) ==
    {[g EXCEPT !.height = h, !.buildZoneLength = bl, !.buildZoneWidth = bw,
               !.materialsLength = ml, !.materialsWidth = mw,
               !.length = Max2(bl + ml + 3, l), !.width = Max2(bw + mw + 3, w)] :
       h \in Sample(5, 7), l \in Sample(12, 30), w \in Sample(12, 25),
       bl \in Extremes(3, 9), bw \in Extremes(3, 9), ml \in Extremes(2, 8), mw \in Extremes(2, 8)}

\* TowerOffsets without the margin of one cell at the far walls
TowerOffsetsNoMargin(t) ==
    {[t EXCEPT !.buildZoneXOffset = bx, !.buildZoneZOffset = bz,
               !.materialsXOffset = mx, !.materialsZOffset = mz] :
       bx \in Extremes(1, t.length - t.buildZoneLength),
       bz \in Extremes(1, t.width - t.buildZoneWidth),
       mx \in Extremes(1, t.length - t.materialsLength),
       mz \in Extremes(1, t.width - t.materialsWidth)}

\* lines 579-583: offsets of the two footprints
TowerOffsets(t) ==
    {[t EXCEPT !.buildZoneXOffset = bx, !.buildZoneZOffset = bz,
               !.materialsXOffset = mx, !.materialsZOffset = mz] :
       bx \in Extremes(1, t.length - t.buildZoneLength - 1),
       bz \in Extremes(1, t.width - t.buildZoneWidth - 1),
       mx \in Extremes(1, t.length - t.materialsLength - 1),
       mz \in Extremes(1, t.width - t.materialsWidth - 1)}

InMaterials(t, c) ==
    /\ c[1] >= t.materialsXOffset /\ c[1] < t.materialsXOffset + t.materialsLength
    /\ c[3] >= t.materialsZOffset /\ c[3] < t.materialsZOffset + t.materialsWidth

\* lines 585-620: the spawn lists
TowerSpawns(t) ==
    LET candidates == RowMajor(1, t.length - 2, 2, 1, t.width - 2)
        size == Len(candidates)
        maxRandomObjects == Min2(size - t.numAgents, 25)
        bulk == RowMajor(t.materialsXOffset, t.materialsXOffset + t.materialsLength - 1, 1,
                         t.materialsZOffset, t.materialsZOffset + t.materialsWidth - 1)
        Dropped(o) == [i \in 1 .. Len(o) |->
                         IF InMaterials(t, o[i]) THEN o[i] ELSE <<o[i][1], o[i][2] - 1, o[i][3]>>]
        Padded(a) == [i \in 1 .. Max2(Len(a), t.numAgents) |-> IF i <= Len(a) THEN a[i] ELSE a[1]]
    IN  UNION {{[t EXCEPT !.agentSpawnCoords = Padded(SubSeq(sh, 1, Min2(t.numAgents, size))),
                          !.objectSpawnCoords = Dropped(o) \o bulk] :
                  o \in Slices(sh, Min2(t.numAgents, size), spawnObjects)} :
               sh \in Shuffles(candidates),
               spawnObjects \in Sample(0, Max2(1, maxRandomObjects))}

\* LayoutGeneratorTower::init
TowerInit(g) == UNION {UNION {TowerSpawns(o) : o \in TowerOffsets(t)} : t \in TowerSizes(g)}

----------------------------------------------------------------------------
(* Primitive extraction *)

\* startEndCoord
startEndCoord(bboxMin, bboxMax, direction) ==
    IF direction = 1 THEN <<bboxMax + 1, bboxMax + 1>>
    ELSE IF direction = 0 - 1 THEN <<bboxMin - 1, bboxMin - 1>>
    ELSE <<bboxMin, bboxMax>>

\* lines 199-207: the layer next to bbox in direction d
Layer(bbox, d) ==
    LET xlim == startEndCoord(bbox.min[1], bbox.max[1], d[1])
        ylim == startEndCoord(bbox.min[2], bbox.max[2], d[2])
        zlim == startEndCoord(bbox.min[3], bbox.max[3], d[3])
    IN  Box(<<xlim[1], ylim[1], zlim[1]>>, <<xlim[2], ylim[2], zlim[2]>>)

\* BoundingBox::addPoint: the box widened to include c
AddPoint(bbox, c) ==
    BoundingBox(<<Min2(bbox.min[1], c[1]), Min2(bbox.min[2], c[2]), Min2(bbox.min[3], c[3])>>,
                <<Max2(bbox.max[1], c[1]), Max2(bbox.max[2], c[2]), Max2(bbox.max[3], c[3])>>)

\* CanExpand without the test of the visited set
CanExpandRevisiting(solid, vis, layer) == \A c \in layer : c \in solid

\* lines 208-214: every voxel of the layer exists, is solid and is not visited
CanExpand(solid, vis, layer) == \A c \in layer : c \in solid /\ c \notin vis

\* Expand taking at most one layer in direction d
ExpandOnce(solid, vis, bbox, d) ==
    IF CanExpand(solid, vis, Layer(bbox, d))
    THEN AddPoint(AddPoint(bbox, Plus(bbox.min, d)), Plus(bbox.max, d))
    ELSE bbox

\* lines 198-228: expand in direction d as far as possible.  The layer is a box, so
\* adding its points widens bbox to its two opposite corners.  The voxels this box
\* marks visited lie inside bbox and every layer tested lies outside it, so the
\* tests read the visited set as it was when the box was seeded
RECURSIVE Expand(_, _, _, _)
Expand(solid, vis, bbox, d) ==
    IF CanExpand(solid, vis, Layer(bbox, d))
    THEN Expand(solid, vis, AddPoint(AddPoint(bbox, Plus(bbox.min, d)), Plus(bbox.max, d)), d)
    ELSE bbox

\* lines 191-230: all six directions in turn, from direction k on
RECURSIVE ExpandFrom(_, _, _, _)
ExpandFrom(solid, vis, bbox, k) ==
    IF k > 6 THEN bbox ELSE ExpandFrom(solid, vis, Expand(solid, vis, bbox, Directions[k]), k + 1)

\* lines 185-235: one iteration of the loop over the hash map that emits a box; the
\* voxels marked visited are the seed and the layers taken, which make up the box
ExtractOne(gr, vis, coord) ==
    LET bbox == ExpandFrom(SolidVoxels(gr), vis, BoundingBox(coord, coord), 1)
    IN  [visited |-> vis \cup Box(bbox.min, bbox.max), bbox |-> bbox]

\* the iteration orders of the hash map that the exploration follows: the
\* lexicographic orders over a permutation of the axes, all axes up or all down
AxisOrders == <<<<1, 2, 3>>, <<3, 2, 1>>, <<2, 1, 3>>, <<1, 3, 2>>, <<2, 3, 1>>, <<3, 1, 2>>>>

Orders ==
    {[axes |-> AxisOrders[((k - 1) % 6) + 1],
      signs |-> IF k % 2 = 1 THEN <<1, 1, 1>> ELSE <<0 - 1, 0 - 1, 0 - 1>>] : k \in 1 .. MaxOrders}

\* the least integer of a non-empty set
Least(S) == CHOOSE v \in S : \A u \in S : v <= u

\* the coordinates of S that come first along the k-th axis of order o
FirstAlong(S, o, k) ==
    LET m == Least({o.signs[k] * c[o.axes[k]] : c \in S})
    IN  {c \in S : o.signs[k] * c[o.axes[k]] = m}

\* the entries the loop has not skipped yet
Unvisited(gr, vis) == {c \in DOMAIN gr : gr[c] /\ c \notin vis}

\* the next entry of the hash map that line 180 does not skip
NextCoord(gr, vis, o) ==
    CHOOSE c \in FirstAlong(FirstAlong(FirstAlong(Unvisited(gr, vis), o, 1), o, 2), o, 3) : TRUE

----------------------------------------------------------------------------
(* Region queries *)

\* LayoutGeneratorBasic::levelExit, after the assertion: the boxes it can return
BasicLevelExit(g) ==
    LET exitPadWidth == Min2(3, g.numAgents)
    IN  {BoundingBox(<<xCoord, 1, zCoord>>, <<xCoord + 1, 2, zCoord + exitPadWidth>>) :
           xCoord \in Draws(g.length - 2, g.length - 1),
           zCoord \in Draws(1, g.width - g.numAgents)}

\* LayoutGeneratorWalls::levelExit, after the assertion
WallsLevelExit(g) ==
    LET exitPadWidth == Min2(3, g.numAgents)
    IN  {BoundingBox(<<exitX, 1, exitZ>>, <<exitX + 1, 2, exitZ + exitPadWidth>>) :
           exitX \in Draws(g.maxWallX + 1, g.length - 1),
           exitZ \in Draws(1, g.width - 1 - exitPadWidth)}

\* levelExit by dynamic type, after the assertion
LevelExits(g, gr) ==
    CASE g.kind = "Basic" -> BasicLevelExit(g)
      [] g.kind = "Walls" -> WallsLevelExit(g)
      [] g.kind = "Cave" -> {CaveExitScan(g, gr, Len(g.freeVoxels), Min2(3, g.numAgents))}
      [] OTHER -> {NoBox}

\* ExitPadFits with the pad as wide as the number of agents
ExitPadFitsUncapped(g) == g.kind = "Tower" \/ g.width - 2 >= g.numAgents

\* the assertion of levelExit; the Tower generator has none
ExitPadFits(g) == g.kind = "Tower" \/ g.width - 2 >= Min2(3, g.numAgents)

\* buildingZone by dynamic type
BuildingZone(g) ==
    IF g.kind = "Tower"
    THEN BoundingBox(<<g.buildZoneXOffset, 1, g.buildZoneZOffset>>,
                     <<g.buildZoneXOffset + g.buildZoneLength, 1,
                       g.buildZoneZOffset + g.buildZoneWidth>>)
    ELSE NoBox

\* startingPositions of the generators that answer in one step
SpawnPositions(g) ==
    IF g.kind = "Cave" THEN Slices(g.freeVoxels, 0, g.numAgents) ELSE {g.agentSpawnCoords}

\* objectSpawnPositions by dynamic type
ObjectSpawnPositions(g) ==
    IF g.kind \in {"Walls", "Tower"} THEN g.objectSpawnCoords ELSE <<>>

\* init by dynamic type
GeneratorInit(g) ==
    CASE g.kind = "Basic" -> BasicInit(g)
      [] g.kind = "Walls" -> WallsInit(g)
      [] g.kind = "Cave" -> CaveInit(g)
      [] g.kind = "Tower" -> TowerInit(g)

\* lines 674-690: the generator the switch leaves in the component
Constructed(old, n, layoutType) ==
    CASE layoutType = "Empty" -> NewGenerator("Basic", n)
      [] layoutType = "Walls" -> NewGenerator("Walls", n)
      [] layoutType = "Cave" -> NewGenerator("Cave", n)
      [] layoutType = "Towers" -> NewGenerator("Tower", n)
      [] OTHER -> old

----------------------------------------------------------------------------
(* The caller *)

Call(op, type) == [op |-> op, type |-> type]

\* the next call of the plan is op, and the process is alive and between calls
Ready(op) ==
    /\ pc = "idle" /\ ~crashed /\ ~fatal
    /\ plan # <<>> /\ Head(plan).op = op

\* the call at the head of the plan returns to the caller
Return == plan' = Tail(plan) /\ returned' = Head(plan) /\ pc' = "idle"

----------------------------------------------------------------------------
(* GridLayoutComponent *)

\* LayoutGeneratorWalls::init built objectSpawnCoords from a range whose end precedes
\* its start, which the vector constructor may answer by throwing
ReversedSlice(g) ==
    g.kind = "Walls" /\ g.numAgents > Len(RowMajor(1, g.firstWallX - 1, 1, 1, g.width - 2))

\* GridLayoutComponent::init.  With no generator, generator->init() goes through a
\* null pointer: the process dies, or goes on without having run any init
ComponentInit ==
    /\ Ready("init")
    /\ LET c == Constructed(generator, numAgents, Head(plan).type)
       IN  IF c.kind = "null"
           THEN /\ generator' = c
                /\ initInvoked' = FALSE
                /\ crashed' \in BOOLEAN
           ELSE /\ generator' \in GeneratorInit(c)
                /\ initInvoked' = TRUE
                /\ crashed' \in IF ReversedSlice(generator') THEN BOOLEAN ELSE {crashed}
    /\ Return
    /\ UNCHANGED <<grid, numAgents, rngWidth, rngRank, fatal, visited, parallelepipeds, order,
                   cave, q, exitPad, zone, agentPositions, slot, attempt, seen>>

\* any other call of the component with no generator: a call through a null pointer
NullCall ==
    /\ pc = "idle" /\ ~crashed /\ ~fatal /\ plan # <<>> /\ Head(plan).op # "init"
    /\ generator.kind = "null"
    /\ crashed' = TRUE
    /\ UNCHANGED <<generator, grid, numAgents, plan, rngWidth, rngRank, initInvoked, fatal, pc,
                   visited, parallelepipeds, order, cave, q, exitPad, zone,
                   agentPositions, slot, attempt, returned, seen>>

\* GridLayoutComponent::generate for the Basic, Walls and Tower generators
Generate ==
    /\ Ready("generate")
    /\ generator.kind \in {"Basic", "Walls", "Tower"}
    /\ grid' = IF generator.kind = "Walls" THEN WallsGenerate(generator, grid)
               ELSE BasicGenerate(generator, grid)
    /\ Return
    /\ UNCHANGED <<generator, numAgents, rngWidth, rngRank, initInvoked, crashed, fatal,
                   visited, parallelepipeds, order, cave, q, exitPad, zone,
                   agentPositions, slot, attempt, seen>>

\* LayoutGeneratorCave::generate, lines 426-444: the shell and the seeds
CaveBegin ==
    /\ Ready("generate")
    /\ generator.kind = "Cave"
    /\ grid' = BasicGenerate(generator, grid)
    /\ \E seeds \in CaveSeeds(generator, NumSeeds(generator)) :
          /\ q' = seeds
          /\ cave' = Range(seeds)
    /\ pc' = "cave"
    /\ UNCHANGED <<generator, numAgents, plan, rngWidth, rngRank, initInvoked, crashed, fatal,
                   visited, parallelepipeds, order, exitPad, zone,
                   agentPositions, slot, attempt, returned, seen>>

\* lines 446-475, one pass of the while loop: each neighbour of the front of the
\* queue is accepted when frand draws p <= growthProb and it is a candidate; p can
\* fall on either side of growthProb at every draw
CaveGrow ==
    /\ pc = "cave" /\ q # <<>>
    /\ LET curr == Head(q)
           near == [k \in 1 .. 6 |-> Plus(curr, Directions[k])]
       IN  \E accepted \in Accepts({k \in 1 .. 6 : CaveCandidate(generator, cave, near[k])},
                                    MaxCave - Cardinality(cave)) :
              /\ q' = Tail(q) \o [i \in 1 .. Cardinality(accepted) |->
                                    near[CHOOSE k \in accepted :
                                           Cardinality({j \in accepted : j < k}) = i - 1]]
              /\ cave' = cave \cup {near[k] : k \in accepted}
    /\ UNCHANGED <<generator, grid, numAgents, plan, rngWidth, rngRank, initInvoked, crashed, fatal, pc,
                   visited, parallelepipeds, order, exitPad, zone,
                   agentPositions, slot, attempt, returned, seen>>

\* lines 477-507: the fills, the free voxels and their shuffle
CaveFinish ==
    /\ pc = "cave" /\ q = <<>>
    /\ \E filled \in {CaveFilled(generator, grid, cave)} :
          /\ grid' = filled
          /\ \E free \in {FreeVoxels(filled, generator.length, generator.width,
                                       generator.caveHeight + 1)} :
                \E sh \in Shuffles(free) : generator' = [generator EXCEPT !.freeVoxels = sh]
    /\ Return
    /\ UNCHANGED <<numAgents, rngWidth, rngRank, initInvoked, crashed, fatal,
                   visited, parallelepipeds, order, cave, q, exitPad, zone,
                   agentPositions, slot, attempt, seen>>

\* extractPrimitives, lines 171-175
ExtractBegin ==
    /\ Ready("extractPrimitives")
    /\ generator.kind # "null"
    /\ order' \in Orders
    /\ visited' = {}
    /\ parallelepipeds' = <<>>
    /\ pc' = "extract"
    /\ UNCHANGED <<generator, grid, numAgents, plan, rngWidth, rngRank, initInvoked, crashed, fatal,
                   cave, q, exitPad, zone, agentPositions, slot, attempt, returned, seen>>

\* lines 177-236: the loop runs to the next solid unvisited entry and emits its box
ExtractBox ==
    /\ pc = "extract"
    /\ Unvisited(grid, visited) # {}
    /\ LET e == ExtractOne(grid, visited, NextCoord(grid, visited, order))
       IN  /\ visited' = e.visited
           /\ parallelepipeds' = Append(parallelepipeds, e.bbox)
    /\ UNCHANGED <<generator, grid, numAgents, plan, rngWidth, rngRank, initInvoked, crashed, fatal, pc,
                   order, cave, q, exitPad, zone, agentPositions, slot, attempt, returned, seen>>

\* line 238
ExtractReturn ==
    /\ pc = "extract"
    /\ Unvisited(grid, visited) = {}
    /\ Return
    /\ UNCHANGED <<generator, grid, numAgents, rngWidth, rngRank, initInvoked, crashed, fatal,
                   visited, parallelepipeds, order, cave, q, exitPad, zone,
                   agentPositions, slot, attempt, seen>>

\* GridLayoutComponent::levelExit
LevelExit ==
    /\ Ready("levelExit")
    /\ generator.kind # "null"
    /\ IF ExitPadFits(generator)
       THEN exitPad' \in LevelExits(generator, grid) /\ fatal' = fatal
       ELSE exitPad' = exitPad /\ fatal' = TRUE
    /\ Return
    /\ UNCHANGED <<generator, grid, numAgents, rngWidth, rngRank, initInvoked, crashed,
                   visited, parallelepipeds, order, cave, q, zone,
                   agentPositions, slot, attempt, seen>>

\* GridLayoutComponent::buildingZone
QueryBuildingZone ==
    /\ Ready("buildingZone")
    /\ generator.kind # "null"
    /\ zone' = BuildingZone(generator)
    /\ Return
    /\ UNCHANGED <<generator, grid, numAgents, rngWidth, rngRank, initInvoked, crashed, fatal,
                   visited, parallelepipeds, order, cave, q, exitPad,
                   agentPositions, slot, attempt, seen>>

\* GridLayoutComponent::startingPositions for the Walls, Cave and Tower generators
StartingPositions ==
    /\ Ready("startingPositions")
    /\ generator.kind \in {"Walls", "Cave", "Tower"}
    /\ agentPositions' \in SpawnPositions(generator)
    /\ Return
    /\ UNCHANGED <<generator, grid, numAgents, rngWidth, rngRank, initInvoked, crashed, fatal,
                   visited, parallelepipeds, order, cave, q, exitPad, zone, slot, attempt, seen>>

\* the calls addLayoutDrawables makes on the generator and the grid
Drawables ==
    <<Call("extractPrimitives", ""), Call("placeObjects", ""), Call("levelExit", ""),
      Call("buildingZone", "")>>

\* GridLayoutComponent::addLayoutDrawables: the layout boxes, the movable objects,
\* the exit pad and the building zone follow in this order
AddLayoutDrawables ==
    /\ Ready("addLayoutDrawables")
    /\ generator.kind # "null"
    /\ plan' = Drawables \o Tail(plan)
    /\ UNCHANGED <<generator, grid, numAgents, rngWidth, rngRank, initInvoked, crashed, fatal, pc,
                   visited, parallelepipeds, order, cave, q, exitPad, zone,
                   agentPositions, slot, attempt, returned, seen>>

\* addLayoutDrawables, lines 762-787: a non-solid voxel holding the object is written
\* at every object spawn position
PlaceObjects ==
    /\ Ready("placeObjects")
    /\ generator.kind # "null"
    /\ grid' = SetFree(grid, Range(ObjectSpawnPositions(generator)))
    /\ Return
    /\ UNCHANGED <<generator, numAgents, rngWidth, rngRank, initInvoked, crashed, fatal,
                   visited, parallelepipeds, order, cave, q, exitPad, zone,
                   agentPositions, slot, attempt, seen>>

\* LayoutGeneratorBasic::startingPositions, line 264
StartBegin ==
    /\ Ready("startingPositions")
    /\ generator.kind = "Basic"
    /\ agentPositions' = <<>>
    /\ slot' = 0
    /\ attempt' = 0
    /\ pc' = "start"
    /\ UNCHANGED <<generator, grid, numAgents, plan, rngWidth, rngRank, initInvoked, crashed, fatal,
                   visited, parallelepipeds, order, cave, q, exitPad, zone, returned, seen>>

\* std::find over the vector
contains(v, c) == \E i \in 1 .. Len(v) : v[i] = c

\* AfterAttempt giving up after 9 collisions instead of 10
AfterAttemptNine(positions, i, att, agentPos) ==
    IF ~contains(positions, agentPos)
    THEN [agentPositions |-> Append(positions, agentPos), slot |-> i + 1, attempt |-> 0]
    ELSE IF att + 1 < 9
         THEN [agentPositions |-> positions, slot |-> i, attempt |-> att + 1]
         ELSE [agentPositions |-> positions, slot |-> i + 1, attempt |-> 0]

\* the next agent index and attempt count after one draw of agentPos
AfterAttempt(positions, i, att, agentPos) ==
    IF ~contains(positions, agentPos)
    THEN [agentPositions |-> Append(positions, agentPos), slot |-> i + 1, attempt |-> 0]
    ELSE IF att + 1 < 10
         THEN [agentPositions |-> positions, slot |-> i, attempt |-> att + 1]
         ELSE [agentPositions |-> positions, slot |-> i + 1, attempt |-> 0]

\* lines 266-275, one attempt of the inner loop
StartAttempt ==
    /\ pc = "start"
    /\ slot < generator.numAgents
    /\ \E x \in Extremes(1, generator.length - 1), z \in Extremes(1, generator.width - 1) :
          LET a == AfterAttempt(agentPositions, slot, attempt, <<x, 1, z>>)
          IN  /\ agentPositions' = a.agentPositions
              /\ slot' = a.slot
              /\ attempt' = a.attempt
    /\ UNCHANGED <<generator, grid, numAgents, plan, rngWidth, rngRank, initInvoked, crashed, fatal, pc,
                   visited, parallelepipeds, order, cave, q, exitPad, zone, returned, seen>>

\* line 277
StartReturn ==
    /\ pc = "start"
    /\ slot >= generator.numAgents
    /\ Return
    /\ UNCHANGED <<generator, grid, numAgents, rngWidth, rngRank, initInvoked, crashed, fatal,
                   visited, parallelepipeds, order, cave, q, exitPad, zone,
                   agentPositions, slot, attempt, seen>>

----------------------------------------------------------------------------
(* Env *)

\* what an episode leaves: the grid, the generator's parameters, the derived
\* regions and the spawn positions
Level ==
    [grid |-> grid, generator |-> generator, exitPad |-> exitPad,
     agentPositions |-> agentPositions]

NoRun ==
    [grid |-> EmptyGrid, generator |-> NullGenerator, exitPad |-> NoBox, agentPositions |-> <<>>]

\* the calls Env::reset makes on the layout component after clearing the grid
Pipeline(layoutType) ==
    <<Call("init", layoutType), Call("generate", ""), Call("extractPrimitives", ""),
      Call("levelExit", ""), Call("startingPositions", "")>>

\* Env::seed.  The history keeps the level of the episode that just finished when it
\* is the first one run from its seed
EnvSeed ==
    /\ Ready("seed")
    /\ rngRank' \in 0 .. MaxSeeds - 1
    /\ seen' = IF returned.op = "startingPositions" /\ seen[rngRank] = NoRun
               THEN [seen EXCEPT ![rngRank] = Level]
               ELSE seen
    /\ Return
    /\ UNCHANGED <<generator, grid, numAgents, rngWidth, initInvoked, crashed, fatal,
                   visited, parallelepipeds, order, cave, q, exitPad, zone,
                   agentPositions, slot, attempt>>

\* Env::reset up to grid.clear(): the working seed is drawn from the stream, the
\* generator is reseeded with it and the grid is cleared; the calls on the layout
\* component follow
EnvReset ==
    /\ Ready("reset")
    /\ rngRank' \in Sample(0, 10000)
    /\ grid' = EmptyGrid
    /\ plan' = Pipeline(Head(plan).type) \o Tail(plan)
    /\ UNCHANGED <<generator, numAgents, rngWidth, initInvoked, crashed, fatal, pc,
                   visited, parallelepipeds, order, cave, q, exitPad, zone,
                   agentPositions, slot, attempt, returned, seen>>

----------------------------------------------------------------------------
(* Specifications *)

\* the state after construction of the component, given what the caller will do
Start(plans, agents, width, ranks) ==
    /\ plan \in plans
    /\ numAgents \in agents
    /\ rngWidth = width
    /\ rngRank \in ranks
    /\ generator = NullGenerator
    /\ grid = EmptyGrid
    /\ initInvoked = FALSE
    /\ crashed = FALSE
    /\ fatal = FALSE
    /\ pc = "idle"
    /\ visited = {}
    /\ parallelepipeds = <<>>
    /\ order = [axes |-> <<1, 2, 3>>, signs |-> <<1, 1, 1>>]
    /\ cave = {}
    /\ q = <<>>
    /\ exitPad = NoBox
    /\ zone = NoBox
    /\ agentPositions = <<>>
    /\ slot = 0
    /\ attempt = 0
    /\ returned = Call("", "")
    /\ seen = [v \in 0 .. MaxSeeds - 1 |-> NoRun]

\* the room shell and its exit pad, over every size init can draw
InitShell ==
    \/ Start({<<Call("init", "Empty"), Call("generate", "")>>}, {1}, MaxShellDraws, {0 - 1})
    \/ Start({<<Call("init", "Empty"), Call("levelExit", "")>>}, 1 .. MaxAgents, MaxShellDraws, {0 - 1})

NextShell == ComponentInit \/ Generate \/ LevelExit

SpecShell == InitShell /\ [][NextShell]_vars

\* the rejection sampling of the Basic starting positions
StartPlans == {<<Call("init", "Empty"), Call("startingPositions", "")>>}

InitStart == Start(StartPlans, 1 .. MaxStartAgents, MaxDraws, {0 - 1})

NextStart == ComponentInit \/ StartBegin \/ StartAttempt \/ StartReturn

SpecStart == InitStart /\ [][NextStart]_vars

\* init of the Walls and Tower generators and the regions they precompute
InitPlans ==
    {<<Call("init", "Walls")>>,
     <<Call("init", "Towers"), Call("buildingZone", "")>>}

InitInit == Start(InitPlans, 1 .. MaxAgents, 2, 0 .. MaxInitDraws - 1)

NextInit == ComponentInit \/ QueryBuildingZone

SpecInit == InitInit /\ [][NextInit]_vars

\* generation and primitive extraction for every archetype, and the cave's queries
ExtractPlans ==
    {<<Call("init", t), Call("generate", ""), Call("extractPrimitives", "")>> : t \in LayoutTypes}

CavePlans ==
    {<<Call("init", "Cave"), Call("generate", ""), Call(c, "")>> :
       c \in {"levelExit", "startingPositions"}}

InitGrid ==
    \/ Start(ExtractPlans, {1}, 1, 0 .. MaxGridDraws - 1)
    \/ Start(CavePlans, {1, MaxAgents}, 1, 0 .. MaxGridDraws - 1)

NextGrid ==
    \/ ComponentInit \/ Generate \/ CaveBegin \/ CaveGrow \/ CaveFinish
    \/ ExtractBegin \/ ExtractBox \/ ExtractReturn
    \/ LevelExit \/ StartingPositions

SpecGrid == InitGrid /\ [][NextGrid]_vars

\* init with a layout type the switch does not handle, first or after another init
ComponentPlans ==
    {<<Call("init", Unsupported), Call("generate", "")>>}
    \cup {<<Call("init", t), Call("init", Unsupported)>> : t \in LayoutTypes}

\* episodes of one Env, each seeded by the caller, every draw a function of the seed
RECURSIVE Episodes(_, _)
Episodes(layoutType, n) ==
    IF n = 0 THEN <<>>
    ELSE <<Call("seed", ""), Call("reset", layoutType)>> \o Episodes(layoutType, n - 1)

EnvPlans == {Episodes(t, MaxEpisodes) : t \in LayoutTypes}

InitEnv == Start(EnvPlans, {1, MaxAgents}, 0, {0})

NextEnv ==
    \/ EnvSeed \/ EnvReset
    \/ ComponentInit \/ Generate \/ CaveBegin \/ CaveGrow \/ CaveFinish
    \/ ExtractBegin \/ ExtractBox \/ ExtractReturn
    \/ LevelExit \/ StartingPositions \/ StartBegin \/ StartAttempt \/ StartReturn

SpecEnv == InitEnv /\ [][NextEnv]_vars

\* the flood fill of the cave, every candidate accepted or a few of them; the
\* generator runs the loop to its end without being interrupted
FillPlans == {<<Call("init", "Cave"), Call("generate", "")>>}

InitFill == Start(FillPlans, {1}, 1, {0 - 1})

NextFill == ComponentInit \/ CaveBegin \/ CaveGrow \/ CaveFinish

SpecFill == InitFill /\ [][NextFill]_vars /\ WF_vars(NextFill)

\* the spawn lists of the Walls and Tower generators and the placement of the objects
SpawnPlans ==
    {<<Call("init", t), Call("generate", ""), Call("addLayoutDrawables", "")>> :
       t \in {"Walls", "Towers"}}

InitSpawn == Start(SpawnPlans, {1, MaxAgents, MaxCrowd}, 1, 0 .. MaxGridDraws - 1)

NextSpawn ==
    \/ ComponentInit \/ Generate \/ AddLayoutDrawables
    \/ ExtractBegin \/ ExtractBox \/ ExtractReturn
    \/ PlaceObjects \/ LevelExit \/ QueryBuildingZone

SpecSpawn == InitSpawn /\ [][NextSpawn]_vars

InitComponent == Start(ComponentPlans, 1 .. MaxAgents, 1, {0})

NextComponent == ComponentInit \/ NullCall

SpecComponent == InitComponent /\ [][NextComponent]_vars

----------------------------------------------------------------------------
(* Properties *)

InBox(c, b) ==
    /\ b.min[1] <= c[1] /\ c[1] <= b.max[1]
    /\ b.min[2] <= c[2] /\ c[2] <= b.max[2]
    /\ b.min[3] <= c[3] /\ c[3] <= b.max[3]

Volume(b) ==
    (b.max[1] - b.min[1] + 1) * (b.max[2] - b.min[2] + 1) * (b.max[3] - b.min[3] + 1)

Disjoint(a, b) ==
    \E k \in 1 .. 3 : a.max[k] < b.min[k] \/ b.max[k] < a.min[k]

Partition(solid, boxes) ==
    /\ \A c \in solid : Cardinality({i \in 1 .. Len(boxes) : InBox(c, boxes[i])}) = 1
    /\ \A i \in 1 .. Len(boxes) : Box(boxes[i].min, boxes[i].max) \subseteq solid
    /\ \A i, j \in 1 .. Len(boxes) : i < j => Disjoint(boxes[i], boxes[j])

\* C1: when extractPrimitives returns, for the grid any archetype generated, every
\* solid voxel lies in exactly one returned box, no two returned boxes share a
\* coordinate, and every coordinate of a returned box is a solid voxel of the grid
ExtractPartitionsSolid ==
    returned.op = "extractPrimitives" => Partition(SolidVoxels(grid), parallelepipeds)

\* a cave was extracted into several boxes, one of them larger than a voxel
ExtractedCave ==
    /\ returned.op = "extractPrimitives" /\ generator.kind = "Cave"
    /\ Cardinality(cave) > 1
    /\ Len(parallelepipeds) > 6
    /\ \E i \in 1 .. Len(parallelepipeds) : Volume(parallelepipeds[i]) > 1

Shell(solid, length, width, height) ==
    /\ \A x \in 0 .. length - 1, z \in 0 .. width - 1 : <<x, 0, z>> \in solid
    /\ \A x \in 0 .. length - 1, y \in 0 .. height - 1, z \in 0 .. width - 1 :
          (x \in {0, length - 1} \/ z \in {0, width - 1}) => <<x, y, z>> \in solid
    /\ \A c \in solid : ~(0 < c[1] /\ c[1] < length - 1 /\ 0 < c[3] /\ c[3] < width - 1 /\ c[2] > 0)

\* C3: after Basic init and generate on an empty grid, for every size init can draw,
\* the floor and the four perimeter walls up to the height are solid and no
\* interior coordinate above the floor is solid
BasicShell ==
    (returned.op = "generate" /\ generator.kind = "Basic") =>
        Shell(SolidVoxels(grid), generator.length, generator.width, generator.height)

\* the largest room init can draw has been generated
LargestShell ==
    /\ returned.op = "generate" /\ generator.kind = "Basic"
    /\ generator.length = 29 /\ generator.width = 24 /\ generator.height = 4
    /\ Solid(grid, <<28, 3, 23>>)

\* C8: Basic levelExit returns, for every numAgents >= 1 and every width init can
\* draw, a box against the far x wall (min.x = length-2) with y band [1, 2] whose z
\* extent is min(3, numAgents) and with 1 <= min.z and max.z <= width-1; the z
\* draw range [1, width-numAgents) is never empty
BasicExitInside ==
    (returned.op \in {"init", "levelExit"} /\ generator.kind = "Basic") =>
        /\ 1 < generator.width - generator.numAgents
        /\ returned.op = "levelExit" =>
              /\ exitPad.min[1] = generator.length - 2
              /\ exitPad.min[2] = 1 /\ exitPad.max[2] = 2
              /\ exitPad.max[3] - exitPad.min[3] = Min2(3, generator.numAgents)
              /\ 1 <= exitPad.min[3] /\ exitPad.max[3] <= generator.width - 1

\* C4: after init with the Walls archetype the x positions of the walls list are
\* strictly increasing in list order and each lies in [firstWallX, length-1)
WallsIncreasing ==
    returned = Call("init", "Walls") =>
        \A i \in 1 .. Len(generator.walls) :
            /\ i > 1 => generator.walls[i - 1][1] < generator.walls[i][1]
            /\ generator.firstWallX <= generator.walls[i][1]
            /\ generator.walls[i][1] < generator.length - 1

\* four walls were placed, not all next to each other
FourWallsApart ==
    /\ returned.op = "init" /\ generator.kind = "Walls"
    /\ Len(generator.walls) = 4
    /\ generator.walls[4][1] - generator.walls[1][1] > 3

\* C6: after init of the Tower archetype the box returned by buildingZone and the
\* materials footprint lie inside the interior 1 <= x <= length-2, 1 <= z <= width-2
TowerFootprintsInside ==
    (returned.op = "buildingZone" /\ generator.kind = "Tower") =>
        /\ 1 <= zone.min[1] /\ zone.max[1] <= generator.length - 2
        /\ 1 <= zone.min[3] /\ zone.max[3] <= generator.width - 2
        /\ 1 <= generator.materialsXOffset
        /\ generator.materialsXOffset + generator.materialsLength - 1 <= generator.length - 2
        /\ 1 <= generator.materialsZOffset
        /\ generator.materialsZOffset + generator.materialsWidth - 1 <= generator.width - 2

\* a level enlarged to fit both footprints, its building zone against the far walls
EnlargedTower ==
    /\ returned.op = "buildingZone" /\ generator.kind = "Tower"
    /\ generator.length = generator.buildZoneLength + generator.materialsLength + 3
    /\ generator.length > 13
    /\ generator.width = generator.buildZoneWidth + generator.materialsWidth + 3
    /\ zone.max[1] = generator.length - 2 /\ zone.max[3] = generator.width - 2

\* C5: after generate of the Cave archetype every coordinate (x, y, z) of the
\* free-voxel list has a solid voxel at (x, y-1, z)
FreeVoxelsStand ==
    (returned.op = "generate" /\ generator.kind = "Cave") =>
        \A i \in 1 .. Len(generator.freeVoxels) :
            Solid(grid, Plus(generator.freeVoxels[i], <<0, 0 - 1, 0>>))

\* a cave grown past its seeds with free voxels inside the cavity and on the ceiling
CaveWithCavity ==
    /\ returned.op = "generate" /\ generator.kind = "Cave"
    /\ Cardinality(cave) > 1
    /\ \E i \in 1 .. Len(generator.freeVoxels) : generator.freeVoxels[i][2] <= generator.caveHeight
    /\ \E i \in 1 .. Len(generator.freeVoxels) : generator.freeVoxels[i][2] = generator.caveHeight + 1

\* C7, the result: Basic startingPositions returns a non-empty list of at most
\* numAgents pairwise distinct coordinates with y = 1, 1 <= x < length-1, 1 <= z < width-1
StartResult ==
    (returned.op = "startingPositions" /\ generator.kind = "Basic") =>
        /\ 1 <= Len(agentPositions) /\ Len(agentPositions) <= generator.numAgents
        /\ \A i, j \in 1 .. Len(agentPositions) : i < j => agentPositions[i] # agentPositions[j]
        /\ \A i \in 1 .. Len(agentPositions) :
              /\ agentPositions[i][2] = 1
              /\ 1 <= agentPositions[i][1] /\ agentPositions[i][1] < generator.length - 1
              /\ 1 <= agentPositions[i][3] /\ agentPositions[i][3] < generator.width - 1

\* C7, the loop: a slot is left without a position only by its tenth colliding draw
SlotSkipped ==
    (pc = "start" /\ slot' = slot + 1 /\ agentPositions' = agentPositions) => attempt = 9

\* C7: Basic startingPositions returns a non-empty list of at most numAgents
\* pairwise distinct interior coordinates at y = 1, and an agent slot is skipped only
\* after 10 consecutive draws that all collide with positions already chosen
StartDistinctInterior == [](StartResult) /\ [][SlotSkipped]_vars

\* the call returned fewer positions than agents: a slot was skipped
StartSkippedSlot ==
    /\ returned.op = "startingPositions" /\ generator.kind = "Basic"
    /\ Len(agentPositions) < generator.numAgents

\* C9 as stated: levelExit of a cave for 4 or more agents, on the narrowest grid init
\* can draw, fails the assertion width-2 >= exitPadWidth instead of returning a box
CaveExitFatal ==
    (returned.op = "levelExit" /\ generator.kind = "Cave" /\ generator.numAgents >= 4
       /\ generator.width = 7) => fatal

\* C9 amended: for the Cave archetype and every numAgents >= 1 the assertion
\* width-2 >= exitPadWidth of levelExit holds on every grid init can draw, so
\* levelExit returns a box and the fatal path is not reachable from init
CaveExitFits ==
    generator.kind = "Cave" =>
        /\ ~fatal
        /\ returned.op \in {"init", "generate", "levelExit"} =>
              generator.width - 2 >= Min2(3, generator.numAgents)
        /\ returned.op = "levelExit" => exitPad # NoBox

\* levelExit returned a box for 4 or more agents on the narrowest grid
CaveExitNarrowest ==
    /\ returned.op = "levelExit" /\ generator.kind = "Cave"
    /\ generator.numAgents >= 4 /\ generator.width = 7
    /\ ~fatal /\ exitPad # NoBox

\* C10: init with an unsupported archetype returns leaving the component without an
\* active generator and without having invoked a generator's init, on a fresh
\* component and on one that holds a generator from an earlier init
UnsupportedLeavesNone ==
    (returned.op = "init" /\ returned.type = Unsupported) =>
        /\ generator.kind = "null"
        /\ ~initInvoked

PadFree(gr, v, exitPadWidth) ==
    \A z \in v[3] .. v[3] + exitPadWidth - 1 : ~Solid(gr, <<v[1], v[2], z>>)

\* C11: Cave levelExit returns the box {v, v+(1,1,exitPadWidth)} of the entry v
\* nearest the end of the free-voxel list whose exitPadWidth pad cells along z are
\* all non-solid, and the default box {(1,1,1),(2,2,2)} exactly when no entry has
\* such a pad; the pad cells of a non-default box are all non-solid in the grid
CaveExitLastFit ==
    (returned.op = "levelExit" /\ generator.kind = "Cave" /\ ~fatal) =>
        LET w == Min2(3, generator.numAgents)
            fv == generator.freeVoxels
            fit == {i \in 1 .. Len(fv) : PadFree(grid, fv[i], w)}
            default == BoundingBox(<<1, 1, 1>>, <<2, 2, 2>>)
        IN  /\ (fit = {}) <=> (exitPad = default)
            /\ fit # {} =>
                  \E i \in fit :
                     /\ \A j \in fit : j <= i
                     /\ exitPad = BoundingBox(fv[i], Plus(fv[i], <<1, 1, w>>))
            /\ exitPad # default =>
                  \A z \in exitPad.min[3] .. exitPad.max[3] - 1 :
                     ~Solid(grid, <<exitPad.min[1], exitPad.min[2], z>>)

\* the scan passed over entries at the end of the list whose pad runs into a solid
\* voxel, and took an earlier entry while entries before that one fit as well
CaveExitSkipped ==
    /\ returned.op = "levelExit" /\ generator.kind = "Cave" /\ ~fatal
    /\ generator.numAgents >= 3
    /\ Len(generator.freeVoxels) > 1
    /\ ~PadFree(grid, generator.freeVoxels[Len(generator.freeVoxels)], 3)
    /\ PadFree(grid, generator.freeVoxels[1], 3)
    /\ exitPad.min # generator.freeVoxels[1]
    /\ exitPad # BoundingBox(<<1, 1, 1>>, <<2, 2, 2>>)

\* the coordinates of a list are pairwise distinct
Distinct(s) == \A i, j \in 1 .. Len(s) : i < j => s[i] # s[j]

\* C12: after init of the Walls archetype, for every numAgents >= 1 and every wall
\* count, the agent spawn list holds exactly numAgents coordinates and the object
\* spawn list at most candidates - numAgents; all of them are pairwise distinct, none
\* is in both lists, and each has y = 1, 1 <= x < firstWallX and 1 <= z < width-1:
\* the slices of the shuffled candidates never run past its end
WallsSpawnsInside ==
    returned = Call("init", "Walls") =>
        LET a == generator.agentSpawnCoords
            o == generator.objectSpawnCoords
            candidates == (generator.firstWallX - 1) * (generator.width - 2)
        IN  /\ generator.numAgents <= candidates
            /\ Len(a) = generator.numAgents
            /\ Len(o) <= candidates - generator.numAgents
            /\ Distinct(a \o o)
            /\ \A c \in Range(a \o o) :
                  /\ c[2] = 1
                  /\ 1 <= c[1] /\ c[1] < generator.firstWallX
                  /\ 1 <= c[3] /\ c[3] < generator.width - 1

\* C13 as stated: each coordinate is enqueued at most once, so the queue of the
\* flood fill never holds a coordinate twice
CaveEnqueuedOnce == pc = "cave" => Distinct(q)

\* C13, the loop: a pass of the loop enqueues exactly the coordinates it adds to the
\* cave set, each once, and removes none from the set
CaveEnqueuesNew ==
    (pc = "cave" /\ pc' = "cave") =>
        LET new == SubSeq(q', Len(q), Len(q'))
        IN  /\ q' = Tail(q) \o new
            /\ Distinct(new)
            /\ Range(new) = cave' \ cave
            /\ cave \subseteq cave'

\* C13 amended: the flood fill terminates for every sequence of accept/reject
\* outcomes, the one accepting every candidate included: each coordinate is added to
\* the cave set at most once and the loop enqueues a coordinate only when it adds
\* it to the set (only a coordinate drawn as a seed more than once is enqueued more
\* than once), so the queue empties and generate returns
CaveFillTerminates ==
    /\ (pc = "cave") ~> (returned.op = "generate" /\ q = <<>>)
    /\ [][CaveEnqueuesNew]_vars
    /\ [](pc = "cave" => Range(q) \subseteq cave)

\* generate returned after the fill claimed every coordinate a candidate can have
CaveFilledWhole ==
    /\ returned.op = "generate" /\ generator.kind = "Cave"
    /\ Cardinality(cave) =
          (generator.length - 4) * generator.caveHeight * (generator.width - 1)

\* C14: every box extractPrimitives emits is maximal when it is emitted: in each of
\* the six axis directions the one-voxel layer next to the box holds a coordinate
\* that is absent, not solid or already visited
BoxesMaximal ==
    (pc = "extract" /\ Len(parallelepipeds) > 0) =>
        \A k \in 1 .. 6 :
            \E c \in Layer(parallelepipeds[Len(parallelepipeds)], Directions[k]) :
                ~Solid(grid, c) \/ c \in visited

\* a box was just emitted that grew along x and then along z, widening the x layers
\* that had stopped its growth, next to boxes emitted before it
GrewAlongTwoAxes ==
    /\ pc = "extract" /\ Len(parallelepipeds) > 1
    /\ LET b == parallelepipeds[Len(parallelepipeds)]
       IN  /\ b.max[1] - b.min[1] > 1 /\ b.max[3] - b.min[3] > 1
           /\ \E c \in Layer(b, Directions[1]) \cup Layer(b, Directions[2]) : c \in visited

\* C15: after generate of any archetype on an empty grid every solid voxel lies in
\* the level volume 0 <= x < length, 0 <= y < height, 0 <= z < width
SolidInsideVolume ==
    returned.op = "generate" =>
        \A c \in SolidVoxels(grid) :
            /\ 0 <= c[1] /\ c[1] < generator.length
            /\ 0 <= c[2] /\ c[2] < generator.height
            /\ 0 <= c[3] /\ c[3] < generator.width

\* C16: Walls init places as many walls as the wall count numWalls it drew: with
\* length >= numWalls*2+7 and the ranges of firstWallX and of each later wallX, the
\* loop never leaves through its 'not enough space' branch
WallsAllPlaced ==
    returned = Call("init", "Walls") =>
        /\ generator.length >= generator.numWalls * 2 + 7
        /\ Len(generator.walls) = generator.numWalls

\* four walls in the longest room, the first one as far as its range reaches and
\* each later one at the end of its range
WallsPackedAtEnd ==
    /\ returned = Call("init", "Walls")
    /\ generator.numWalls = 4 /\ generator.length = 34
    /\ generator.walls[1][1] = 4 + 34 - 15
    /\ \A i \in 2 .. 4 : generator.walls[i][1] = 34 - (3 + (4 - i) * 2) - 1

====
